---- MODULE Spec2Model ----
(***************************************************************************)
(* Model of the packet codec of misery (protocol/src/packet.rs).           *)
(*                                                                         *)
(* Bytes are the integers 0..255 and a buffer is a sequence of bytes.  A   *)
(* Cursor<&[u8]> is a buffer b together with a position p (the number of   *)
(* bytes already consumed).  Every read returns a record                   *)
(*     [st, err, val, pos]                                                 *)
(* where st is "ok", "err" (an io::Error was returned) or "panic" (the     *)
(* bytes crate's Buf::get_* panics when fewer bytes remain than it needs). *)
(*                                                                         *)
(* A String is the sequence of its Unicode scalar values.  32-bit values   *)
(* are signed integers; a 64-bit value (i64, f64) is the pair <<hi, lo>>   *)
(* of its two big-endian 32-bit halves, each held as a signed 32-bit       *)
(* integer, and an f32 is its 32-bit pattern.                              *)
(***************************************************************************)
EXTENDS Integers, Sequences, FiniteSets, TLC

VARIABLES
  step,       \* what has been done so far
  packet,     \* the Packet handed to to_bytes
  str,        \* the String handed to put_string
  data,       \* the byte buffer handed to from_bytes or read_string
  origin,     \* where data comes from
  first,      \* what from_bytes returned for the encoding without trailer
  result,     \* what from_bytes returned for data
  reencoded,  \* what to_bytes returned for the decoded packet
  written,    \* what put_string returned
  readback,   \* what read_string returned
  encoded,    \* what to_bytes returned for packet
  long,       \* what put_string did with a string of many chars
  server,     \* the process running start_server
  conn        \* the connections and the task spawned for each

vars ==
  <<step, packet, str, data, origin, first, result, reencoded, written,
    readback, encoded, long, server, conn>>

codecVars ==
  <<step, packet, str, data, origin, first, result, reencoded, written,
    readback, encoded, long>>

(***************************************************************************)
(* Packet identifiers                                                      *)
(***************************************************************************)
KEEP_ALIVE_PACKET_ID == 0

LOGIN_REQUEST_PACKET_ID == 1

HANDSHAKE_PACKET_ID == 2

CHAT_MESSAGE_PACKET_ID == 3

TIME_UPDATE_PACKET_ID == 4

ENTITY_EQUIPMENT_PACKET_ID == 5

SPAWN_POSITION_PACKET_ID == 6

PLAYER_POSITION_AND_LOOK_PACKET_ID == 13

SERVER_LIST_PING_PACKET_ID == 254

DISCONNECT_KICK_PACKET_ID == 255

(***************************************************************************)
(* Results                                                                 *)
(***************************************************************************)
NoError == [kind |-> "None", msg |-> ""]

\* io::Error::new(io::ErrorKind::InvalidData, "Unknown packet ID")
UnknownPacketIdError == [kind |-> "InvalidData", msg |-> "Unknown packet ID"]

\* io::Error::new(io::ErrorKind::InvalidData, "Invalid UTF-16 data")
InvalidUtf16Error == [kind |-> "InvalidData", msg |-> "Invalid UTF-16 data"]

NoPacket == [kind |-> "None"]

Ok(v, p) == [st |-> "ok", err |-> NoError, val |-> v, pos |-> p]

Err(e, v, p) == [st |-> "err", err |-> e, val |-> v, pos |-> p]

Panic(v, p) == [st |-> "panic", err |-> NoError, val |-> v, pos |-> p]

\* Ok(()) of a write into the buffer: the buffer as it is afterwards.
WOk(buffer) == [st |-> "ok", err |-> NoError, buf |-> buffer]

\* The ? operator (and an unwinding panic): the failure of a read, carried
\* out of the enclosing payload decoder.
Propagate(r) == [st |-> r.st, err |-> r.err, val |-> NoPacket, pos |-> r.pos]

(***************************************************************************)
(* Fixed-width big-endian reads (bytes::Buf)                               *)
(***************************************************************************)
remaining(b, p) == Len(b) - p

Signed8(x) == IF x >= 128 THEN x - 256 ELSE x

get_u8(b, p) ==
  IF remaining(b, p) < 1 THEN Panic(0, p) ELSE Ok(b[p + 1], p + 1)

get_i8(b, p) ==
  IF remaining(b, p) < 1 THEN Panic(0, p) ELSE Ok(Signed8(b[p + 1]), p + 1)

get_u16(b, p) ==
  IF remaining(b, p) < 2 THEN Panic(0, p)
  ELSE Ok(b[p + 1] * 256 + b[p + 2], p + 2)

get_i16(b, p) ==
  IF remaining(b, p) < 2 THEN Panic(0, p)
  ELSE Ok(Signed8(b[p + 1]) * 256 + b[p + 2], p + 2)

get_i32(b, p) ==
  IF remaining(b, p) < 4 THEN Panic(0, p)
  ELSE Ok(Signed8(b[p + 1]) * 16777216 + b[p + 2] * 65536
            + b[p + 3] * 256 + b[p + 4], p + 4)

\* get_f32 is f32::from_bits(get_u32): the value is its bit pattern.
get_f32(b, p) == get_i32(b, p)

get_i64(b, p) ==
  IF remaining(b, p) < 8 THEN Panic(<<0, 0>>, p)
  ELSE Ok(<<get_i32(b, p).val, get_i32(b, p + 4).val>>, p + 8)

\* get_f64 is f64::from_bits(get_u64): the value is its bit pattern.
get_f64(b, p) == get_i64(b, p)

(***************************************************************************)
(* Fixed-width big-endian writes (bytes::BufMut); they never fail.         *)
(***************************************************************************)
put_u8(buffer, v) == Append(buffer, v % 256)

put_i8(buffer, v) == Append(buffer, v % 256)

put_u16(buffer, v) == buffer \o <<(v \div 256) % 256, v % 256>>

put_i16(buffer, v) == buffer \o <<(v \div 256) % 256, v % 256>>

\* put_i32 writing the least significant byte first.
put_i32_le(buffer, v) ==
  buffer \o <<v % 256, (v \div 256) % 256, (v \div 65536) % 256,
              (v \div 16777216) % 256>>

put_i32(buffer, v) ==
  buffer \o <<(v \div 16777216) % 256, (v \div 65536) % 256,
              (v \div 256) % 256, v % 256>>

put_f32(buffer, v) == put_i32(buffer, v)

put_i64(buffer, v) == put_i32(put_i32(buffer, v[1]), v[2])

put_f64(buffer, v) == put_i64(buffer, v)

(***************************************************************************)
(* UTF-16 (core::str::encode_utf16, alloc::string::String::from_utf16)     *)
(***************************************************************************)
IsHighSurrogate(u) == u >= 55296 /\ u <= 56319

IsLowSurrogate(u) == u >= 56320 /\ u <= 57343

\* char::encode_utf16: one unit for a scalar value below 0x10000, else a
\* surrogate pair.
EncodeChar(c) ==
  IF c < 65536 THEN <<c>>
  ELSE <<55296 + ((c - 65536) \div 1024), 56320 + ((c - 65536) % 1024)>>

\* The units of the chars of s, in order (the two halves of s in turn, so
\* that a string of 65536 chars is within reach).
RECURSIVE encode_utf16(_)
encode_utf16(s) ==
  IF s = <<>> THEN <<>>
  ELSE IF Len(s) = 1 THEN EncodeChar(s[1])
  ELSE LET h == Len(s) \div 2 IN
       encode_utf16(SubSeq(s, 1, h)) \o encode_utf16(SubSeq(s, h + 1, Len(s)))

\* s.chars().count()
chars_count(s) == Len(s)

\* String::from_utf16: [ok |-> FALSE] when a surrogate is unpaired.  The
\* units are decoded in two parts, cut where no pair is split, so that a
\* buffer full of units is within reach.
RECURSIVE from_utf16(_)
from_utf16(v) ==
  IF v = <<>> THEN [ok |-> TRUE, s |-> <<>>]
  ELSE IF Len(v) = 1 THEN
    IF IsLowSurrogate(v[1]) \/ IsHighSurrogate(v[1])
    THEN [ok |-> FALSE, s |-> <<>>]
    ELSE [ok |-> TRUE, s |-> <<v[1]>>]
  ELSE IF Len(v) = 2 /\ IsHighSurrogate(v[1]) THEN
    IF ~IsLowSurrogate(v[2]) THEN [ok |-> FALSE, s |-> <<>>]
    ELSE [ok |-> TRUE,
          s |-> <<65536 + (v[1] - 55296) * 1024 + (v[2] - 56320)>>]
  ELSE LET half == Len(v) \div 2
           cut == IF IsHighSurrogate(v[half]) THEN half + 1 ELSE half
           left == from_utf16(SubSeq(v, 1, cut))
           right == from_utf16(SubSeq(v, cut + 1, Len(v)))
       IN IF ~left.ok \/ ~right.ok THEN [ok |-> FALSE, s |-> <<>>]
          ELSE [ok |-> TRUE, s |-> left.s \o right.s]

(***************************************************************************)
(* String sub-codec                                                        *)
(***************************************************************************)
\* The loop of read_string: n successive get_u16 pushed onto utf16_data;
\* the get_u16 that finds fewer than two bytes left panics.
ReadUnits(b, p, n) ==
  LET fit == remaining(b, p) \div 2 IN
  IF n > fit THEN Panic(<<>>, get_u16(b, p + 2 * fit).pos)
  ELSE Ok([i \in 1..n |-> get_u16(b, p + 2 * (i - 1)).val], p + 2 * n)

\* A read_string that swallows the conversion error (unwrap_or_default).
read_string_Lossy(b, p) ==
  LET length == get_u16(b, p) IN
  IF length.st # "ok" THEN Panic(<<>>, length.pos)
  ELSE LET utf16_data == ReadUnits(b, length.pos, length.val) IN
       IF utf16_data.st # "ok" THEN utf16_data
       ELSE LET decoded == from_utf16(utf16_data.val) IN
            IF decoded.ok THEN Ok(decoded.s, utf16_data.pos)
            ELSE Ok(<<>>, utf16_data.pos)

read_string(b, p) ==
  LET length == get_u16(b, p) IN
  IF length.st # "ok" THEN Panic(<<>>, length.pos)
  ELSE LET utf16_data == ReadUnits(b, length.pos, length.val) IN
       IF utf16_data.st # "ok" THEN utf16_data
       ELSE LET decoded == from_utf16(utf16_data.val) IN
            IF decoded.ok THEN Ok(decoded.s, utf16_data.pos)
            ELSE Err(InvalidUtf16Error, <<>>, utf16_data.pos)

\* The bytes that put_u16 of every unit in order appends (the two halves of
\* units in turn, so that 65536 units are within reach).
RECURSIVE UnitBytes(_)
UnitBytes(units) ==
  IF units = <<>> THEN <<>>
  ELSE IF Len(units) = 1 THEN put_u16(<<>>, units[1])
  ELSE LET h == Len(units) \div 2 IN
       UnitBytes(SubSeq(units, 1, h)) \o UnitBytes(SubSeq(units, h + 1, Len(units)))

\* The loop of put_string.
PutUnits(buffer, units) == buffer \o UnitBytes(units)

\* The prefix is s.chars().count() as u16; every UTF-16 unit is written.
put_string(buffer, s) ==
  LET utf16_data == encode_utf16(s) IN
  WOk(PutUnits(put_u16(buffer, chars_count(s) % 65536), utf16_data))

(***************************************************************************)
(* Payload types                                                           *)
(***************************************************************************)
KeepAlivePayload_from_bytes(b, p) ==
  LET keep_alive_id == get_i32(b, p) IN
  IF keep_alive_id.st # "ok" THEN Propagate(keep_alive_id)
  ELSE Ok([kind |-> "KeepAlive", keep_alive_id |-> keep_alive_id.val],
          keep_alive_id.pos)

KeepAlivePayload_to_bytes(self, buffer) ==
  WOk(put_i32(buffer, self.keep_alive_id))

\* unused_0 is not read: it is set to 0 and max_players takes the byte that
\* follows difficulty.
LoginRequestPayload_from_bytes(b, p) ==
  LET id == get_i32(b, p) IN
  IF id.st # "ok" THEN Propagate(id) ELSE
  LET username == read_string(b, id.pos) IN
  IF username.st # "ok" THEN Propagate(username) ELSE
  LET level_type == read_string(b, username.pos) IN
  IF level_type.st # "ok" THEN Propagate(level_type) ELSE
  LET server_mode == get_i32(b, level_type.pos) IN
  IF server_mode.st # "ok" THEN Propagate(server_mode) ELSE
  LET dimension == get_i32(b, server_mode.pos) IN
  IF dimension.st # "ok" THEN Propagate(dimension) ELSE
  LET difficulty == get_i8(b, dimension.pos) IN
  IF difficulty.st # "ok" THEN Propagate(difficulty) ELSE
  LET max_players == get_u8(b, difficulty.pos) IN
  IF max_players.st # "ok" THEN Propagate(max_players) ELSE
  Ok([kind |-> "LoginRequest", id |-> id.val, username |-> username.val,
      level_type |-> level_type.val, server_mode |-> server_mode.val,
      dimension |-> dimension.val, difficulty |-> difficulty.val,
      unused_0 |-> 0, max_players |-> max_players.val],
     max_players.pos)

LoginRequestPayload_to_bytes(self, buffer) ==
  LET b1 == put_i32(buffer, self.id)
      r2 == put_string(b1, self.username)
  IN
  IF r2.st # "ok" THEN r2 ELSE
  LET r3 == put_string(r2.buf, self.level_type) IN
  IF r3.st # "ok" THEN r3 ELSE
  LET b4 == put_i32(r3.buf, self.server_mode)
      b5 == put_i32(b4, self.dimension)
      b6 == put_i8(b5, self.difficulty)
      b7 == put_u8(b6, self.unused_0)
      b8 == put_u8(b7, self.max_players)
  IN WOk(b8)

HandshakePayload_from_bytes(b, p) ==
  LET d == read_string(b, p) IN
  IF d.st # "ok" THEN Propagate(d)
  ELSE Ok([kind |-> "Handshake", data |-> d.val], d.pos)

HandshakePayload_to_bytes(self, buffer) == put_string(buffer, self.data)

ChatMessagePayload_from_bytes(b, p) ==
  LET message == read_string(b, p) IN
  IF message.st # "ok" THEN Propagate(message)
  ELSE Ok([kind |-> "ChatMessage", message |-> message.val], message.pos)

ChatMessagePayload_to_bytes(self, buffer) == put_string(buffer, self.message)

TimeUpdatePayload_from_bytes(b, p) ==
  LET time == get_i64(b, p) IN
  IF time.st # "ok" THEN Propagate(time)
  ELSE Ok([kind |-> "TimeUpdate", time |-> time.val], time.pos)

TimeUpdatePayload_to_bytes(self, buffer) == WOk(put_i64(buffer, self.time))

EntityEquipmentPayload_from_bytes(b, p) ==
  LET entity_id == get_i32(b, p) IN
  IF entity_id.st # "ok" THEN Propagate(entity_id) ELSE
  LET slot == get_i16(b, entity_id.pos) IN
  IF slot.st # "ok" THEN Propagate(slot) ELSE
  LET item_id == get_i16(b, slot.pos) IN
  IF item_id.st # "ok" THEN Propagate(item_id) ELSE
  LET damage == get_i16(b, item_id.pos) IN
  IF damage.st # "ok" THEN Propagate(damage) ELSE
  Ok([kind |-> "EntityEquipment", entity_id |-> entity_id.val,
      slot |-> slot.val, item_id |-> item_id.val, damage |-> damage.val],
     damage.pos)

EntityEquipmentPayload_to_bytes(self, buffer) ==
  WOk(put_i16(put_i16(put_i16(put_i32(buffer, self.entity_id), self.slot),
                      self.item_id), self.damage))

SpawnPositionPayload_from_bytes(b, p) ==
  LET x == get_i32(b, p) IN
  IF x.st # "ok" THEN Propagate(x) ELSE
  LET y == get_i32(b, x.pos) IN
  IF y.st # "ok" THEN Propagate(y) ELSE
  LET z == get_i32(b, y.pos) IN
  IF z.st # "ok" THEN Propagate(z) ELSE
  Ok([kind |-> "SpawnPosition", x |-> x.val, y |-> y.val, z |-> z.val], z.pos)

SpawnPositionPayload_to_bytes(self, buffer) ==
  WOk(put_i32(put_i32(put_i32(buffer, self.x), self.y), self.z))

PlayerPositionAndLookPayload_from_bytes(b, p) ==
  LET x == get_f64(b, p) IN
  IF x.st # "ok" THEN Propagate(x) ELSE
  LET stance_y_0 == get_f64(b, x.pos) IN
  IF stance_y_0.st # "ok" THEN Propagate(stance_y_0) ELSE
  LET stance_y_1 == get_f64(b, stance_y_0.pos) IN
  IF stance_y_1.st # "ok" THEN Propagate(stance_y_1) ELSE
  LET z == get_f64(b, stance_y_1.pos) IN
  IF z.st # "ok" THEN Propagate(z) ELSE
  LET yaw == get_f32(b, z.pos) IN
  IF yaw.st # "ok" THEN Propagate(yaw) ELSE
  LET pitch == get_f32(b, yaw.pos) IN
  IF pitch.st # "ok" THEN Propagate(pitch) ELSE
  LET on_ground == get_u8(b, pitch.pos) IN
  IF on_ground.st # "ok" THEN Propagate(on_ground) ELSE
  Ok([kind |-> "PlayerPositionAndLook", x |-> x.val,
      stance_y_0 |-> stance_y_0.val, stance_y_1 |-> stance_y_1.val,
      z |-> z.val, yaw |-> yaw.val, pitch |-> pitch.val,
      on_ground |-> on_ground.val],
     on_ground.pos)

PlayerPositionAndLookPayload_to_bytes(self, buffer) ==
  LET b1 == put_f64(buffer, self.x)
      b2 == put_f64(b1, self.stance_y_0)
      b3 == put_f64(b2, self.stance_y_1)
      b4 == put_f64(b3, self.z)
      b5 == put_f32(b4, self.yaw)
      b6 == put_f32(b5, self.pitch)
      b7 == put_u8(b6, self.on_ground)
  IN WOk(b7)

ServerListPingPayload_from_bytes(b, p) == Ok([kind |-> "ServerListPing"], p)

DisconnectKickPayload_from_bytes(b, p) ==
  LET reason == read_string(b, p) IN
  IF reason.st # "ok" THEN Propagate(reason)
  ELSE Ok([kind |-> "DisconnectKick", reason |-> reason.val], reason.pos)

DisconnectKickPayload_to_bytes(self, buffer) == put_string(buffer, self.reason)

(***************************************************************************)
(* Packet                                                                  *)
(***************************************************************************)
\* A default arm that panics instead of returning the error.
UnknownPacketId_Panics(packet_id, p) == Panic(NoPacket, p)

\* The default arm of the match of Packet::from_bytes.
UnknownPacketId(packet_id, p) == Err(UnknownPacketIdError, NoPacket, p)

\* The match of Packet::from_bytes on the identifier, cursor after it.
FromBytesMatch(packet_id, b, p) ==
  CASE packet_id = KEEP_ALIVE_PACKET_ID -> KeepAlivePayload_from_bytes(b, p)
    [] packet_id = LOGIN_REQUEST_PACKET_ID ->
         LoginRequestPayload_from_bytes(b, p)
    [] packet_id = DISCONNECT_KICK_PACKET_ID ->
         DisconnectKickPayload_from_bytes(b, p)
    [] packet_id = HANDSHAKE_PACKET_ID -> HandshakePayload_from_bytes(b, p)
    [] packet_id = CHAT_MESSAGE_PACKET_ID ->
         ChatMessagePayload_from_bytes(b, p)
    [] packet_id = TIME_UPDATE_PACKET_ID -> TimeUpdatePayload_from_bytes(b, p)
    [] packet_id = ENTITY_EQUIPMENT_PACKET_ID ->
         EntityEquipmentPayload_from_bytes(b, p)
    [] packet_id = SPAWN_POSITION_PACKET_ID ->
         SpawnPositionPayload_from_bytes(b, p)
    [] packet_id = PLAYER_POSITION_AND_LOOK_PACKET_ID ->
         PlayerPositionAndLookPayload_from_bytes(b, p)
    [] packet_id = SERVER_LIST_PING_PACKET_ID ->
         ServerListPingPayload_from_bytes(b, p)
    [] OTHER -> UnknownPacketId(packet_id, p)

Packet_from_bytes(bytes) ==
  LET packet_id == get_u8(bytes, 0) IN
  IF packet_id.st # "ok" THEN Propagate(packet_id)
  ELSE FromBytesMatch(packet_id.val, bytes, packet_id.pos)

\* Arms that put each other's identifier: Handshake and ChatMessage.
ToBytesId_Swapped(self) ==
  CASE self.kind = "KeepAlive" -> KEEP_ALIVE_PACKET_ID
    [] self.kind = "LoginRequest" -> LOGIN_REQUEST_PACKET_ID
    [] self.kind = "Handshake" -> CHAT_MESSAGE_PACKET_ID
    [] self.kind = "ChatMessage" -> HANDSHAKE_PACKET_ID
    [] self.kind = "TimeUpdate" -> TIME_UPDATE_PACKET_ID
    [] self.kind = "EntityEquipment" -> ENTITY_EQUIPMENT_PACKET_ID
    [] self.kind = "SpawnPosition" -> SPAWN_POSITION_PACKET_ID
    [] self.kind = "PlayerPositionAndLook" ->
         PLAYER_POSITION_AND_LOOK_PACKET_ID
    [] self.kind = "ServerListPing" -> SERVER_LIST_PING_PACKET_ID
    [] self.kind = "DisconnectKick" -> DISCONNECT_KICK_PACKET_ID

\* The identifier each arm of Packet::to_bytes puts first.
ToBytesId(self) ==
  CASE self.kind = "KeepAlive" -> KEEP_ALIVE_PACKET_ID
    [] self.kind = "LoginRequest" -> LOGIN_REQUEST_PACKET_ID
    [] self.kind = "Handshake" -> HANDSHAKE_PACKET_ID
    [] self.kind = "ChatMessage" -> CHAT_MESSAGE_PACKET_ID
    [] self.kind = "TimeUpdate" -> TIME_UPDATE_PACKET_ID
    [] self.kind = "EntityEquipment" -> ENTITY_EQUIPMENT_PACKET_ID
    [] self.kind = "SpawnPosition" -> SPAWN_POSITION_PACKET_ID
    [] self.kind = "PlayerPositionAndLook" ->
         PLAYER_POSITION_AND_LOOK_PACKET_ID
    [] self.kind = "ServerListPing" -> SERVER_LIST_PING_PACKET_ID
    [] self.kind = "DisconnectKick" -> DISCONNECT_KICK_PACKET_ID

\* The payload.to_bytes(&mut buffer)? of each arm; ServerListPing has none.
ToBytesPayload(self, buffer) ==
  CASE self.kind = "KeepAlive" -> KeepAlivePayload_to_bytes(self, buffer)
    [] self.kind = "LoginRequest" ->
         LoginRequestPayload_to_bytes(self, buffer)
    [] self.kind = "Handshake" -> HandshakePayload_to_bytes(self, buffer)
    [] self.kind = "ChatMessage" -> ChatMessagePayload_to_bytes(self, buffer)
    [] self.kind = "TimeUpdate" -> TimeUpdatePayload_to_bytes(self, buffer)
    [] self.kind = "EntityEquipment" ->
         EntityEquipmentPayload_to_bytes(self, buffer)
    [] self.kind = "SpawnPosition" ->
         SpawnPositionPayload_to_bytes(self, buffer)
    [] self.kind = "PlayerPositionAndLook" ->
         PlayerPositionAndLookPayload_to_bytes(self, buffer)
    [] self.kind = "ServerListPing" -> WOk(buffer)
    [] self.kind = "DisconnectKick" ->
         DisconnectKickPayload_to_bytes(self, buffer)

\* Packet::to_bytes without the identifier byte in front of the payload.
Packet_to_bytes_NoId(self) ==
  LET r == ToBytesPayload(self, <<>>)
  IN IF r.st # "ok" THEN [st |-> r.st, err |-> r.err, val |-> <<>>]
     ELSE [st |-> "ok", err |-> NoError, val |-> r.buf]

Packet_to_bytes(self) ==
  LET buffer == put_u8(<<>>, ToBytesId(self))
      r == ToBytesPayload(self, buffer)
  IN IF r.st # "ok" THEN [st |-> r.st, err |-> r.err, val |-> <<>>]
     ELSE [st |-> "ok", err |-> NoError, val |-> r.buf]

(***************************************************************************)
(* #[derive(PartialEq)]: fields are compared one by one; an f64 or f32     *)
(* field compares by IEEE 754 (NaN differs from itself, +0.0 equals -0.0). *)
(***************************************************************************)
MinI32 == -2147483647 - 1

f64_is_nan(v) ==
  /\ (v[1] \div 1048576) % 2048 = 2047
  /\ ~(v[1] % 1048576 = 0 /\ v[2] = 0)

f64_is_zero(v) == v[1] \in {0, MinI32} /\ v[2] = 0

f64_eq(a, b) ==
  /\ ~f64_is_nan(a)
  /\ ~f64_is_nan(b)
  /\ (a = b \/ (f64_is_zero(a) /\ f64_is_zero(b)))

f32_is_nan(v) == (v \div 8388608) % 256 = 255 /\ v % 8388608 # 0

f32_eq(a, b) ==
  /\ ~f32_is_nan(a)
  /\ ~f32_is_nan(b)
  /\ (a = b \/ ({a, b} \subseteq {0, MinI32}))

PacketEq(a, b) ==
  /\ a.kind = b.kind
  /\ IF a.kind = "PlayerPositionAndLook"
     THEN /\ f64_eq(a.x, b.x)
          /\ f64_eq(a.stance_y_0, b.stance_y_0)
          /\ f64_eq(a.stance_y_1, b.stance_y_1)
          /\ f64_eq(a.z, b.z)
          /\ f32_eq(a.yaw, b.yaw)
          /\ f32_eq(a.pitch, b.pitch)
          /\ a.on_ground = b.on_ground
     ELSE a = b

(***************************************************************************)
(* Inputs                                                                  *)
(***************************************************************************)
\* Longest string of a Handshake, ChatMessage or DisconnectKick sample.
MaxStrLen == 2

\* Longest username and level_type of a LoginRequest sample.
MaxLoginStrLen == 1

\* Most code units in a raw string field, and largest raw length prefix.
MaxRawUnits == 2

\* Most bytes appended after an encoded packet.
MaxTrail == 2

SeqsUpTo(S, n) == UNION {[1..k -> S] : k \in 0..n}

\* 'A', the section sign of the status string, and U+1F600 (not in the BMP).
SampleChars == {65, 167, 128512}

Strings == SeqsUpTo(SampleChars, MaxStrLen)

LoginStrings == SeqsUpTo(SampleChars, MaxLoginStrLen)

\* 8.5, 66.62, -0.0 and a NaN, as <<hi, lo>> bit patterns.
F64_8_5 == <<1075904512, 0>>

F64_66_62 == <<1079027630, 343597384>>

F64_NegZero == <<MinI32, 0>>

F64_NaN == <<2146959360, 0>>

\* -180.0f32 as a bit pattern.
F32_Neg180 == -1020002304

KeepAlivePackets ==
  {[kind |-> "KeepAlive", keep_alive_id |-> i] :
     i \in {MinI32, -1, 0, 17, 2147483647}}

LoginRequestPackets ==
  {[kind |-> "LoginRequest", id |-> i, username |-> u, level_type |-> l,
    server_mode |-> m, dimension |-> -1, difficulty |-> d, unused_0 |-> r,
    max_players |-> x] :
     i \in {29, MinI32}, u \in LoginStrings, l \in LoginStrings,
     m \in {0, 1}, d \in {0, -1}, r \in {0, 7}, x \in {0, 20}}

HandshakePackets == {[kind |-> "Handshake", data |-> t] : t \in Strings}

ChatMessagePackets == {[kind |-> "ChatMessage", message |-> t] : t \in Strings}

TimeUpdatePackets ==
  {[kind |-> "TimeUpdate", time |-> t] :
     t \in {<<0, 16>>, <<-1, -1>>, <<MinI32, 0>>, <<1, MinI32>>}}

EntityEquipmentPackets ==
  {[kind |-> "EntityEquipment", entity_id |-> e, slot |-> sl, item_id |-> it,
    damage |-> dm] :
     e \in {32, -1}, sl \in {0, 4}, it \in {-1, 64}, dm \in {0, -32768}}

SpawnPositionPackets ==
  {[kind |-> "SpawnPosition", x |-> x, y |-> 65, z |-> z] :
     x \in {8, -1}, z \in {8, MinI32}}

PlayerPositionAndLookPackets ==
  {[kind |-> "PlayerPositionAndLook", x |-> x, stance_y_0 |-> F64_66_62,
    stance_y_1 |-> y1, z |-> z, yaw |-> F32_Neg180, pitch |-> 0,
    on_ground |-> g] :
     x \in {F64_8_5, F64_NaN}, y1 \in {F64_8_5, F64_NegZero},
     z \in {F64_8_5, <<0, 0>>}, g \in {0, 1}}

ServerListPingPackets == {[kind |-> "ServerListPing"]}

DisconnectKickPackets ==
  {[kind |-> "DisconnectKick", reason |-> t] : t \in Strings}

Packets ==
  KeepAlivePackets \cup LoginRequestPackets \cup HandshakePackets
    \cup ChatMessagePackets \cup TimeUpdatePackets
    \cup EntityEquipmentPackets \cup SpawnPositionPackets
    \cup PlayerPositionAndLookPackets \cup ServerListPingPackets
    \cup DisconnectKickPackets

PacketIds ==
  {KEEP_ALIVE_PACKET_ID, LOGIN_REQUEST_PACKET_ID, HANDSHAKE_PACKET_ID,
   CHAT_MESSAGE_PACKET_ID, TIME_UPDATE_PACKET_ID, ENTITY_EQUIPMENT_PACKET_ID,
   SPAWN_POSITION_PACKET_ID, PLAYER_POSITION_AND_LOOK_PACKET_ID,
   SERVER_LIST_PING_PACKET_ID, DISCONNECT_KICK_PACKET_ID}

\* Bytes appended after a message: zero padding, text, a ServerListPing.
TrailBytes == {0, 65, 254}

Trailing == SeqsUpTo(TrailBytes, MaxTrail) \ {<<>>}

\* 'A', a high surrogate (0xD83D) and a low surrogate (0xDE00).
RawUnits == {65, 55357, 56832}

\* A string field as it may arrive: any prefix 0..MaxRawUnits before any
\* units, so the units may be too few, too many, or not valid UTF-16.
RawStrings ==
  {put_u16(<<>>, n) \o PutUnits(<<>>, us) :
     n \in 0..MaxRawUnits, us \in SeqsUpTo(RawUnits, MaxRawUnits)}

\* level_type fields that arrive whole: empty, "A", a lone high surrogate.
RawLevelTypes == {<<0, 0>>, <<0, 1, 0, 65>>, <<0, 1, 216, 61>>}

RawStringBuffers ==
  {<<id>> \o rs :
     id \in {HANDSHAKE_PACKET_ID, CHAT_MESSAGE_PACKET_ID,
             DISCONNECT_KICK_PACKET_ID},
     rs \in RawStrings}

\* LoginRequest buffers with and without the byte after the reserved byte.
RawLoginBuffers ==
  {<<LOGIN_REQUEST_PACKET_ID, 0, 0, 0, 29>> \o u \o l
     \o <<0, 0, 0, 1, 255, 255, 255, 255, 2>> \o t :
     u \in RawStrings, l \in RawLevelTypes,
     t \in {<<0>>, <<7>>, <<0, 0>>, <<0, 5>>, <<7, 5>>}}

UnknownIdBuffers ==
  {<<b>> \o t : b \in (0..255) \ PacketIds, t \in {<<>>, <<0>>, <<0, 1, 0, 65>>}}

\* The byte arrays of the decode_* tests.
TestBuffers ==
  { <<0, 0, 0, 0, 17>>,
    <<1, 0, 0, 0, 29, 0, 1, 0, 101, 0, 0, 0, 0, 0, 0, 0, 0, 0, 0, 0, 0>>,
    <<2, 0, 3, 0, 101, 0, 59, 0, 49>>,
    <<3, 0, 2, 0, 104, 0, 105>>,
    <<4, 0, 0, 0, 0, 0, 0, 0, 16>>,
    <<5, 0, 0, 0, 32, 0, 4, 0, 64, 0, 0>>,
    <<6, 0, 0, 0, 16, 0, 0, 0, 32, 0, 0, 0, 48>>,
    <<13, 64, 33, 0, 0, 0, 0, 0, 0, 64, 80, 64, 0, 0, 0, 0, 0, 64, 80, 167,
      174, 20, 128, 0, 0, 64, 33, 0, 0, 0, 0, 0, 0, 195, 52, 0, 0, 0, 0, 0,
      0, 0>>,
    <<254>>,
    <<255, 0, 1, 0, 65>>,
    <<254, 0, 0, 0>>,
    <<0, 0, 0, 0, 17, 0, 0, 0, 0>> }

RawBuffers ==
  {<<>>} \cup TestBuffers \cup UnknownIdBuffers \cup RawStringBuffers
    \cup RawLoginBuffers

(***************************************************************************)
(* The server (server/src/lib.rs): its state                               *)
(***************************************************************************)
\* Most connections accepted.
MaxConns == 2

\* Most reads of a connection that return data.
MaxReads == 3

\* vec![0u8; 128]
BUF_SIZE == 128

Conns == 1..MaxConns

Zeroes(n) == [i \in 1..n |-> 0]

\* A connection that listener.accept() has not returned yet.
\*   pc       where its task is: "unaccepted", "read", "write", "done"
\*            (returned) or "panicked"
\*   msgs     the messages the client sends, in order
\*   closes   whether the client closes the stream after them
\*   off      how many of the client's bytes the reads have returned
\*   reads    how many reads returned data
\*   buf, n   the task's buffer and the count the last read returned
\*   decodes  one entry per decode call
\*   towrite  the replies of the packet being handled not yet written
\*   sent     the replies written to the socket
\*   ended    how many tasks had ended when this one was spawned
NoConn ==
  [pc |-> "unaccepted", msgs |-> <<>>, closes |-> FALSE, off |-> 0,
   reads |-> 0, buf |-> <<>>, n |-> 0, decodes |-> <<>>, towrite |-> <<>>,
   sent |-> <<>>, ended |-> 0]

NoLong == [chars |-> 0, st |-> "none", prefix |-> 0, units |-> 0]

(***************************************************************************)
(* The codec applied to the inputs                                         *)
(***************************************************************************)
NoResult == [st |-> "none", err |-> NoError, val |-> NoPacket, pos |-> 0]

NoEncoding == [st |-> "none", err |-> NoError, val |-> <<>>]

NoBuffer == [st |-> "none", err |-> NoError, buf |-> <<>>]

NoString == [st |-> "none", err |-> NoError, val |-> <<>>, pos |-> 0]

Init ==
  /\ step = "start"
  /\ packet = NoPacket
  /\ str = <<>>
  /\ data = <<>>
  /\ origin = "none"
  /\ first = NoResult
  /\ result = NoResult
  /\ reencoded = NoEncoding
  /\ written = NoBuffer
  /\ readback = NoString
  /\ encoded = NoEncoding
  /\ long = NoLong
  /\ server = "running"
  /\ conn = [c \in Conns |-> NoConn]

\* A caller builds a packet.
ChoosePacket ==
  /\ step = "start"
  /\ \E m \in Packets : packet' = m
  /\ step' = "chosen"
  /\ UNCHANGED <<str, data, origin, first, result, reencoded, written,
                 readback>>
  /\ UNCHANGED <<encoded, long, server, conn>>

\* packet.to_bytes().unwrap(): unwrap panics when to_bytes returns Err.
ToBytes ==
  /\ step = "chosen"
  /\ encoded' = Packet_to_bytes(packet)
  /\ IF encoded'.st = "ok"
     THEN data' = encoded'.val /\ origin' = "encoded" /\ step' = "buffer"
     ELSE data' = data /\ origin' = origin /\ step' = "failed"
  /\ UNCHANGED <<packet, str, first, result, reencoded, written, readback>>
  /\ UNCHANGED <<long, server, conn>>

\* Bytes arrive that no encoder of this program produced.
ChooseBuffer ==
  /\ step = "start"
  /\ \E b \in RawBuffers : data' = b
  /\ origin' = "raw"
  /\ step' = "buffer"
  /\ UNCHANGED <<packet, str, first, result, reencoded, written, readback>>
  /\ UNCHANGED <<encoded, long, server, conn>>

\* Only the first k bytes of an encoded packet arrive.
Truncate ==
  /\ step = "buffer"
  /\ origin = "encoded"
  /\ \E k \in 0..(Len(data) - 1) : data' = SubSeq(data, 1, k)
  /\ origin' = "truncated"
  /\ UNCHANGED <<packet, str, first, result, reencoded, written, readback,
                 step>>
  /\ UNCHANGED <<encoded, long, server, conn>>

\* Packet::from_bytes(data)
FromBytes ==
  /\ step = "buffer"
  /\ result' = Packet_from_bytes(data)
  /\ step' = "decoded"
  /\ UNCHANGED <<packet, str, data, origin, first, reencoded, written,
                 readback>>
  /\ UNCHANGED <<encoded, long, server, conn>>

\* The encoded packet is decoded again with bytes appended to it.
Extend ==
  /\ step = "decoded"
  /\ origin = "encoded"
  /\ \E t \in Trailing : data' = data \o t
  /\ first' = result
  /\ result' = NoResult
  /\ origin' = "extended"
  /\ step' = "buffer"
  /\ UNCHANGED <<packet, str, reencoded, written, readback>>
  /\ UNCHANGED <<encoded, long, server, conn>>

\* The decoded packet is encoded again.
ReEncode ==
  /\ step = "decoded"
  /\ origin = "raw"
  /\ result.st = "ok"
  /\ reencoded' = Packet_to_bytes(result.val)
  /\ step' = "reencoded"
  /\ UNCHANGED <<packet, str, data, origin, first, result, written, readback>>
  /\ UNCHANGED <<encoded, long, server, conn>>

\* put_string(&mut buffer, s) on an empty buffer.
PutString ==
  /\ step = "start"
  /\ \E s \in Strings :
       /\ str' = s
       /\ written' = put_string(<<>>, s)
       /\ data' = put_string(<<>>, s).buf
  /\ origin' = "put_string"
  /\ step' = "string"
  /\ UNCHANGED <<packet, first, result, reencoded, readback>>
  /\ UNCHANGED <<encoded, long, server, conn>>

\* A string field arrives that put_string did not write.
ChooseRawString ==
  /\ step = "start"
  /\ \E rs \in RawStrings : data' = rs
  /\ origin' = "raw_string"
  /\ step' = "string"
  /\ UNCHANGED <<packet, str, first, result, reencoded, written, readback>>
  /\ UNCHANGED <<encoded, long, server, conn>>

\* read_string on a cursor at the start of data.
ReadString ==
  /\ step = "string"
  /\ readback' = read_string(data, 0)
  /\ step' = "string_read"
  /\ UNCHANGED <<packet, str, data, origin, first, result, reencoded,
                 written>>
  /\ UNCHANGED <<encoded, long, server, conn>>

\* u16::MAX, the largest value s.chars().count() as u16 keeps.
U16_MAX == 65535

\* Lengths of the strings of 'A's handed to put_string, around u16::MAX.
LongLengths == {0, 1, U16_MAX, U16_MAX + 1, U16_MAX + 2}

\* put_string(&mut buffer, s) for a string of many chars; only the prefix
\* read back and the number of units after it are kept.
PutLongString ==
  /\ step = "start"
  /\ \E len \in LongLengths :
       LET r == put_string(<<>>, [i \in 1..len |-> 65]) IN
       long' = [chars |-> len, st |-> r.st,
                prefix |-> r.buf[1] * 256 + r.buf[2],
                units |-> (Len(r.buf) - 2) \div 2]
  /\ step' = "long_string"
  /\ UNCHANGED <<packet, str, data, origin, first, result, reencoded,
                 written, readback, encoded, server, conn>>

Next ==
  \/ ChoosePacket
  \/ ToBytes
  \/ ChooseBuffer
  \/ Truncate
  \/ FromBytes
  \/ Extend
  \/ ReEncode
  \/ PutString
  \/ ChooseRawString
  \/ ReadString
  \/ PutLongString

Spec == Init /\ [][Next]_vars

(***************************************************************************)
(* The server (server/src/lib.rs): the accept loop and the task it spawns  *)
(* for every connection                                                    *)
(***************************************************************************)
\* 65.0 as f64 bits.
F64_65 == <<1079001088, 0>>

\* Packet::try_from(buf.as_ref()): the decode function applied to a slice.
Packet_try_from(value) == Packet_from_bytes(value)

\* "A Minecraft Server§0§20"
StatusText ==
  <<65, 32, 77, 105, 110, 101, 99, 114, 97, 102, 116, 32, 83, 101, 114,
    118, 101, 114, 167, 48, 167, 50, 48>>

\* "default"
DefaultText == <<100, 101, 102, 97, 117, 108, 116>>

StatusReply == [kind |-> "DisconnectKick", reason |-> StatusText]

HandshakeReply == [kind |-> "Handshake", data |-> <<45>>]

LoginReply ==
  [kind |-> "LoginRequest", id |-> 1234, username |-> <<>>,
   level_type |-> DefaultText, server_mode |-> 1, dimension |-> 0,
   difficulty |-> 0, unused_0 |-> 0, max_players |-> 20]

SpawnReply == [kind |-> "SpawnPosition", x |-> 8, y |-> 65, z |-> 8]

PositionReply ==
  [kind |-> "PlayerPositionAndLook", x |-> F64_8_5, stance_y_0 |-> F64_66_62,
   stance_y_1 |-> F64_65, z |-> F64_8_5, yaw |-> F32_Neg180, pitch |-> 0,
   on_ground |-> 0]

KeepAliveReply == [kind |-> "KeepAlive", keep_alive_id |-> 1]

\* The match of the task with SpawnPosition written before the
\* LoginRequest reply.
Replies_SpawnFirst(p) ==
  CASE p.kind = "ServerListPing" -> <<StatusReply>>
    [] p.kind = "Handshake" -> <<HandshakeReply>>
    [] p.kind = "LoginRequest" -> <<SpawnReply, LoginReply, PositionReply>>
    [] p.kind = "PlayerPositionAndLook" -> <<KeepAliveReply>>
    [] OTHER -> <<>>

\* match packet { ... }: the payloads each arm writes, in order.  The arm
\* of PlayerPositionAndLook also builds a copy of the received payload,
\* which it does not write.
Replies(p) ==
  CASE p.kind = "ServerListPing" -> <<StatusReply>>
    [] p.kind = "Handshake" -> <<HandshakeReply>>
    [] p.kind = "LoginRequest" -> <<LoginReply, SpawnReply, PositionReply>>
    [] p.kind = "PlayerPositionAndLook" -> <<KeepAliveReply>>
    [] OTHER -> <<>>

\* A panic of a spawned task ends the process.
AfterTaskPanic_Abort == "crashed"

\* A panic of a task spawned with tokio::spawn is caught by the runtime:
\* the task ends, the process goes on.
AfterTaskPanic == "running"

\* if n == 0 with the loop going on instead of returning.
AfterEof_Continue == "read"

\* if n == 0 { return; }
AfterEof == "done"

RECURSIVE Flatten(_)
Flatten(ms) == IF ms = <<>> THEN <<>> ELSE Head(ms) \o Flatten(Tail(ms))

\* The bytes the client of connection c sends, in order.
Stream(c) == Flatten(conn[c].msgs)

\* The client's bytes no read has returned yet.
Rest(c) == Len(Stream(c)) - conn[c].off

Min(a, b) == IF a <= b THEN a ELSE b

Ended == {d \in Conns : conn[d].pc \in {"done", "panicked"}}

\* What clients send: one message each.
PingMessage == <<254>>

HandshakeMessage == <<2, 0, 1, 0, 65>>

LoginMessage ==
  Packet_to_bytes([kind |-> "LoginRequest", id |-> 29, username |-> <<>>,
                   level_type |-> <<>>, server_mode |-> 0, dimension |-> 0,
                   difficulty |-> 0, unused_0 |-> 0, max_players |-> 0]).val

PositionMessage == Packet_to_bytes(PositionReply).val

KeepAliveMessage == <<0, 0, 0, 0, 1>>

UnknownMessage == <<153>>

\* A Handshake whose text is one unpaired surrogate.
MalformedMessage == <<2, 0, 1, 216, 61>>

\* The start of a Handshake announcing 65535 units.
HugePrefixMessage == <<2, 255, 255>>

\* What the client of one connection sends over its life.
ClientScripts ==
  { <<>>, <<PingMessage>>, <<HandshakeMessage, LoginMessage>>,
    <<LoginMessage, PingMessage>>, <<PositionMessage>>,
    <<KeepAliveMessage, HandshakeMessage>>, <<HandshakeMessage, PingMessage>>,
    <<UnknownMessage>>, <<MalformedMessage>>, <<HugePrefixMessage>> }

\* What the clients send where several connections are followed.
ServerScripts ==
  { <<PingMessage>>, <<HandshakeMessage, LoginMessage>>, <<UnknownMessage>>,
    <<MalformedMessage>>, <<HugePrefixMessage>> }

\* listener.accept().await.unwrap() returns a connection and the loop
\* spawns its task; the client will send msgs and then close the stream,
\* or keep it open.
Accept(c, msgs, closes) ==
  /\ server = "running"
  /\ conn[c].pc = "unaccepted"
  /\ \A d \in Conns : d < c => conn[d].pc # "unaccepted"
  /\ conn' = [conn EXCEPT ![c] =
                [pc |-> "read", msgs |-> msgs, closes |-> closes, off |-> 0,
                 reads |-> 0, buf |-> Zeroes(BUF_SIZE), n |-> 0,
                 decodes |-> <<>>, towrite |-> <<>>, sent |-> <<>>,
                 ended |-> Cardinality(Ended)]]
  /\ UNCHANGED server
  /\ UNCHANGED codecVars

\* listener.accept() returns Err: unwrap panics in start_server.
AcceptFail ==
  /\ server = "running"
  /\ server' = "crashed"
  /\ UNCHANGED conn
  /\ UNCHANGED codecVars

\* The sizes of the chunk the next read may return: any part of what the
\* client has sent, or all of it in the last read followed.
Chunks(c) ==
  IF conn[c].reads + 1 >= MaxReads
  THEN {Min(Rest(c), BUF_SIZE)} \ {0}
  ELSE 1..Min(Rest(c), BUF_SIZE)

\* socket.read(&mut buf) returns n = k > 0: the first k bytes of buf are
\* overwritten, the task decodes buf and matches on the result.
Read(c, k) ==
  /\ server = "running"
  /\ conn[c].pc = "read"
  /\ conn[c].reads < MaxReads
  /\ k \in 1..Min(Rest(c), BUF_SIZE)
  /\ LET t == conn[c]
         chunk == SubSeq(Stream(c), t.off + 1, t.off + k)
         buf == chunk \o SubSeq(t.buf, k + 1, BUF_SIZE)
         r == Packet_try_from(buf)
         entry == [start |-> t.off, n |-> k, st |-> r.st, val |-> r.val,
                   pos |-> r.pos]
         read == [t EXCEPT !.off = t.off + k, !.reads = t.reads + 1,
                           !.buf = buf, !.n = k,
                           !.decodes = Append(t.decodes, entry)]
     IN CASE r.st = "ok" ->
               /\ conn' = [conn EXCEPT ![c] =
                             [read EXCEPT
                                !.towrite = Replies(r.val),
                                !.pc = IF Replies(r.val) = <<>>
                                       THEN "read" ELSE "write"]]
               /\ UNCHANGED server
          [] r.st = "err" ->
               /\ conn' = [conn EXCEPT ![c] = [read EXCEPT !.pc = "done"]]
               /\ UNCHANGED server
          [] OTHER ->
               /\ conn' = [conn EXCEPT ![c] = [read EXCEPT !.pc = "panicked"]]
               /\ server' = AfterTaskPanic
  /\ UNCHANGED codecVars

\* socket.read returns 0: the client has closed the stream and every byte
\* it sent has been read.
ReadEof(c) ==
  /\ server = "running"
  /\ conn[c].pc = "read"
  /\ conn[c].closes
  /\ Rest(c) = 0
  /\ conn' = [conn EXCEPT ![c] = [@ EXCEPT !.n = 0, !.pc = AfterEof]]
  /\ UNCHANGED server
  /\ UNCHANGED codecVars

\* socket.read returns Err: expect panics in the task.
ReadFail(c) ==
  /\ server = "running"
  /\ conn[c].pc = "read"
  /\ conn' = [conn EXCEPT ![c] = [@ EXCEPT !.pc = "panicked"]]
  /\ server' = AfterTaskPanic
  /\ UNCHANGED codecVars

\* socket.write_all(payload) returns Ok: the next payload of the arm is
\* on the wire.
Write(c) ==
  /\ server = "running"
  /\ conn[c].pc = "write"
  /\ conn' = [conn EXCEPT ![c] =
                [@ EXCEPT !.sent = Append(@, Head(conn[c].towrite)),
                          !.towrite = Tail(@),
                          !.pc = IF Tail(conn[c].towrite) = <<>>
                                 THEN "read" ELSE "write"]]
  /\ UNCHANGED server
  /\ UNCHANGED codecVars

\* socket.write_all returns Err: expect panics in the task.
WriteFail(c) ==
  /\ server = "running"
  /\ conn[c].pc = "write"
  /\ conn' = [conn EXCEPT ![c] = [@ EXCEPT !.pc = "panicked"]]
  /\ server' = AfterTaskPanic
  /\ UNCHANGED codecVars

\* One step of the task of connection c.
TaskStep(c) ==
  \/ ReadFail(c)
  \/ ReadEof(c)
  \/ WriteFail(c)
  \/ Write(c)
  \/ \E k \in Chunks(c) : Read(c, k)

\* One connection, its bytes split into chunks in every way.
NextConn ==
  \/ \E msgs \in ClientScripts, closes \in BOOLEAN : Accept(1, msgs, closes)
  \/ \E k \in Chunks(1) : Read(1, k)
  \/ ReadEof(1)
  \/ ReadFail(1)
  \/ Write(1)
  \/ WriteFail(1)

SpecConn == Init /\ [][NextConn]_vars

\* Every read and every write of the task completes.
FairConn == SpecConn /\ WF_vars(TaskStep(1))

\* Several connections, each read returning all the client has sent.
NextServer ==
  \/ \E c \in Conns, msgs \in ServerScripts, closes \in BOOLEAN :
       Accept(c, msgs, closes)
  \/ AcceptFail
  \/ \E c \in Conns : Read(c, Min(Rest(c), BUF_SIZE))
  \/ \E c \in Conns : ReadEof(c)
  \/ \E c \in Conns : ReadFail(c)
  \/ \E c \in Conns : Write(c)
  \/ \E c \in Conns : WriteFail(c)

SpecServer == Init /\ [][NextServer]_vars

(***************************************************************************)
(* Properties                                                              *)
(***************************************************************************)
\* The number of UTF-16 code units of a string: two for each character
\* outside the Basic Multilingual Plane, one for every other.
RECURSIVE utf16CodeUnitCount(_)
utf16CodeUnitCount(s) ==
  IF s = <<>> THEN 0
  ELSE (IF Head(s) >= 65536 THEN 2 ELSE 1) + utf16CodeUnitCount(Tail(s))

\* C1: decoding the encoding of any packet succeeds and returns a packet
\* equal to it, field by field.
C1_RoundTrip ==
  (step = "decoded" /\ origin = "encoded")
    => (result.st = "ok" /\ PacketEq(result.val, packet))

\* C2: read_string applied to the bytes written by put_string(s) returns
\* exactly s, for the empty string and for strings with characters outside
\* the Basic Multilingual Plane as well.
C2_StringRoundTrip ==
  (step = "string_read" /\ origin = "put_string")
    => (readback.st = "ok" /\ readback.val = str)

\* C3: put_string writes a 16-bit big-endian prefix equal to the number of
\* UTF-16 code units of s, then exactly that many units of 2 bytes each, so
\* the output is 2 + 2 * utf16CodeUnitCount(s) bytes long and the prefix
\* equals the number of units that follow it.
C3_PrefixIsUnitCount ==
  (step = "string" /\ origin = "put_string")
    => /\ written.st = "ok"
       /\ Len(data) = 2 + 2 * utf16CodeUnitCount(str)
       /\ data[1] * 256 + data[2] = utf16CodeUnitCount(str)
       /\ 2 * (data[1] * 256 + data[2]) = Len(data) - 2

\* C4: decoding the empty buffer or a strict prefix of the encoding of a
\* packet returns an error value of its own kind (a truncation error); no
\* read goes past the end of the bytes and nothing panics.
C4_TruncationIsAnError ==
  (step = "decoded" /\ (origin = "truncated" \/ data = <<>>))
    => /\ result.st = "err"
       /\ result.err \notin {NoError, UnknownPacketIdError, InvalidUtf16Error}

\* The ten registered identifiers, as the identifier table lists them.
RegisteredTable ==
  [KeepAlive |-> 0, LoginRequest |-> 1, Handshake |-> 2, ChatMessage |-> 3,
   TimeUpdate |-> 4, EntityEquipment |-> 5, SpawnPosition |-> 6,
   PlayerPositionAndLook |-> 13, ServerListPing |-> 254,
   DisconnectKick |-> 255]

Registered == {RegisteredTable[k] : k \in DOMAIN RegisteredTable}

UnknownFirstByte == data # <<>> /\ data[1] \notin Registered

FieldPresent(b, p) ==
  /\ Len(b) >= p + 2
  /\ Len(b) >= p + 2 + 2 * (b[p + 1] * 256 + b[p + 2])

FieldEnd(b, p) == p + 2 + 2 * (b[p + 1] * 256 + b[p + 2])

FieldUnits(b, p) ==
  [i \in 1..(b[p + 1] * 256 + b[p + 2]) |->
     b[p + 2 * i + 1] * 256 + b[p + 2 * i + 2]]

\* Valid UTF-16: every high surrogate is directly followed by a low one and
\* every low surrogate directly follows a high one.
WellFormedUtf16(u) ==
  \A i \in 1..Len(u) :
    /\ (u[i] \in 55296..56319) => (i < Len(u) /\ u[i + 1] \in 56320..57343)
    /\ (u[i] \in 56320..57343) => (i > 1 /\ u[i - 1] \in 55296..56319)

FieldMalformed(b, p) ==
  FieldPresent(b, p) /\ ~WellFormedUtf16(FieldUnits(b, p))

\* The first string field of the packet in b that is not valid UTF-16 is
\* there whole (with the fields before it).
PacketTextMalformed(b) ==
  /\ b # <<>>
  /\ \/ b[1] \in {2, 3, 255} /\ FieldMalformed(b, 1)
     \/ /\ b[1] = 1
        /\ Len(b) >= 5
        /\ \/ FieldMalformed(b, 5)
           \/ FieldPresent(b, 5) /\ FieldMalformed(b, FieldEnd(b, 5))

IsMalformedTextError(r) ==
  /\ r.st = "err"
  /\ r.err = [kind |-> "InvalidData", msg |-> "Invalid UTF-16 data"]

\* C6: when the units of a string field that are all there are not valid
\* UTF-16, read_string and Packet::from_bytes return the malformed-text
\* error and no packet; that error is returned in no other case, so it is
\* told apart from the unknown-identifier error and from truncation.
C6_MalformedText ==
  /\ (step = "string_read" /\ FieldMalformed(data, 0))
       => (IsMalformedTextError(readback) /\ readback.val = <<>>)
  /\ (step = "decoded" /\ PacketTextMalformed(data))
       => (IsMalformedTextError(result) /\ result.val = NoPacket)
  /\ (step = "decoded" /\ IsMalformedTextError(result))
       => (PacketTextMalformed(data) /\ ~UnknownFirstByte)
  /\ (step = "decoded" /\ UnknownFirstByte) => ~IsMalformedTextError(result)

C6_Witness ==
  /\ step = "decoded"
  /\ origin = "raw"
  /\ Len(data) >= 5
  /\ data[1] = 1
  /\ FieldPresent(data, 5)
  /\ ~FieldMalformed(data, 5)
  /\ FieldMalformed(data, FieldEnd(data, 5))
  /\ IsMalformedTextError(result)

\* C7: decoding the encoding of a packet followed by extra bytes succeeds
\* and returns the packet that decoding the encoding alone returns.
C7_TrailingTolerance ==
  (step = "decoded" /\ origin = "extended")
    => (first.st = "ok" /\ result.st = "ok" /\ result.val = first.val)

\* C8: a buffer that is exactly one message long and decodes successfully is
\* reproduced byte for byte by encoding the decoded packet.
C8_ByteExactReencoding ==
  (step = "reencoded" /\ origin = "raw" /\ result.pos = Len(data))
    => (reencoded.st = "ok" /\ reencoded.val = data)

\* Offset of the end of dimension in a LoginRequest with these strings.
AfterDimension(m) ==
  1 + 4 + (2 + 2 * utf16CodeUnitCount(m.username))
    + (2 + 2 * utf16CodeUnitCount(m.level_type)) + 4 + 4

\* C9: LoginRequest decode consumes three single bytes after dimension
\* (difficulty, reserved, maxPlayers) and the decoded max_players is the
\* byte after the reserved byte, where encode writes max_players.
C9_LoginReadsReserved ==
  (step = "decoded" /\ result.st = "ok" /\ result.val.kind = "LoginRequest")
    => LET q == AfterDimension(result.val) IN
       /\ result.pos = q + 3
       /\ Len(data) >= q + 3
       /\ result.val.max_players = data[q + 3]

\* C10: the ten identifiers are pairwise distinct, to_bytes puts the
\* identifier of the packet's variant first, and a successful from_bytes
\* returns the variant of the buffer's first byte whatever follows it.
C10_IdentifierSelectsVariant ==
  /\ Cardinality(PacketIds) = 10
  /\ PacketIds = Registered
  /\ (step = "buffer" /\ origin = "encoded")
       => data[1] = RegisteredTable[packet.kind]
  /\ (step = "decoded" /\ result.st = "ok")
       => data[1] = RegisteredTable[result.val.kind]

C10_Witness ==
  /\ step = "decoded"
  /\ origin = "extended"
  /\ result.st = "ok"
  /\ result.val.kind = "DisconnectKick"
  /\ data[Len(data)] = 254

\* The bytes one message of m's kind occupies: the identifier and the sum
\* of the widths of its fields.
MessageLength(m) ==
  CASE m.kind = "KeepAlive" -> 5
    [] m.kind = "LoginRequest" ->
         20 + 2 * (utf16CodeUnitCount(m.username)
                   + utf16CodeUnitCount(m.level_type))
    [] m.kind = "Handshake" -> 3 + 2 * utf16CodeUnitCount(m.data)
    [] m.kind = "ChatMessage" -> 3 + 2 * utf16CodeUnitCount(m.message)
    [] m.kind = "TimeUpdate" -> 9
    [] m.kind = "EntityEquipment" -> 11
    [] m.kind = "SpawnPosition" -> 13
    [] m.kind = "PlayerPositionAndLook" -> 42
    [] m.kind = "ServerListPing" -> 1
    [] m.kind = "DisconnectKick" -> 3 + 2 * utf16CodeUnitCount(m.reason)

\* C11: decoding m.to_bytes() followed by any trailing bytes succeeds and
\* leaves the cursor at len(m.to_bytes()), which is the identifier plus
\* the field widths of m's kind; a successful read_string whose prefix is
\* n leaves the cursor 2 + 2n bytes further.
C11_ExactConsumption ==
  /\ (step = "decoded" /\ origin \in {"encoded", "extended"})
       => /\ result.st = "ok"
          /\ result.pos = Len(encoded.val)
          /\ result.pos = MessageLength(packet)
  /\ (step = "string_read" /\ readback.st = "ok")
       => readback.pos = 2 + 2 * (data[1] * 256 + data[2])

\* The w-byte big-endian two's-complement form of v, for w = 1 and w = 2.
BE(v, w) ==
  LET u == IF v >= 0 THEN v ELSE v + (IF w = 1 THEN 256 ELSE 65536) IN
  IF w = 1 THEN <<u>> ELSE <<u \div 256, u % 256>>

\* The 4-byte form: the low 31 bits of v, and the sign bit on top.
BE32(v) ==
  LET low == IF v >= 0 THEN v ELSE v - MinI32
      sign == IF v >= 0 THEN 0 ELSE 128 IN
  <<sign + low \div 16777216, (low \div 65536) % 256, (low \div 256) % 256,
    low % 256>>

\* The 8-byte form of a 64-bit value held as its two 32-bit halves.
BE64(v) == BE32(v[1]) \o BE32(v[2])

\* The bytes of data at offsets from + 1 .. from + w.
Field(from, w) == SubSeq(data, from + 1, from + w)

\* The numeric fields of the encoding of m, each at its offset, hold the
\* big-endian form of the field's value.
WrittenBigEndian(m) ==
  CASE m.kind = "KeepAlive" -> Field(1, 4) = BE32(m.keep_alive_id)
    [] m.kind = "TimeUpdate" -> Field(1, 8) = BE64(m.time)
    [] m.kind = "EntityEquipment" ->
         /\ Field(1, 4) = BE32(m.entity_id)
         /\ Field(5, 2) = BE(m.slot, 2)
         /\ Field(7, 2) = BE(m.item_id, 2)
         /\ Field(9, 2) = BE(m.damage, 2)
    [] m.kind = "SpawnPosition" ->
         /\ Field(1, 4) = BE32(m.x)
         /\ Field(5, 4) = BE32(m.y)
         /\ Field(9, 4) = BE32(m.z)
    [] m.kind = "PlayerPositionAndLook" ->
         /\ Field(1, 8) = BE64(m.x)
         /\ Field(9, 8) = BE64(m.stance_y_0)
         /\ Field(17, 8) = BE64(m.stance_y_1)
         /\ Field(25, 8) = BE64(m.z)
         /\ Field(33, 4) = BE32(m.yaw)
         /\ Field(37, 4) = BE32(m.pitch)
    [] m.kind = "LoginRequest" ->
         LET q == AfterDimension(m) IN
         /\ Field(1, 4) = BE32(m.id)
         /\ Field(q - 8, 4) = BE32(m.server_mode)
         /\ Field(q - 4, 4) = BE32(m.dimension)
         /\ Field(q, 1) = BE(m.difficulty, 1)
         /\ Field(q + 1, 1) = BE(m.unused_0, 1)
         /\ Field(q + 2, 1) = BE(m.max_players, 1)
    [] OTHER -> TRUE

\* Reading each numeric field of the encoding of m at its offset, with the
\* read of the field's width, returns the field's value.
ReadBigEndian(m) ==
  CASE m.kind = "KeepAlive" -> get_i32(data, 1).val = m.keep_alive_id
    [] m.kind = "TimeUpdate" -> get_i64(data, 1).val = m.time
    [] m.kind = "EntityEquipment" ->
         /\ get_i32(data, 1).val = m.entity_id
         /\ get_i16(data, 5).val = m.slot
         /\ get_i16(data, 7).val = m.item_id
         /\ get_i16(data, 9).val = m.damage
    [] m.kind = "SpawnPosition" ->
         /\ get_i32(data, 1).val = m.x
         /\ get_i32(data, 5).val = m.y
         /\ get_i32(data, 9).val = m.z
    [] m.kind = "PlayerPositionAndLook" ->
         /\ get_f64(data, 1).val = m.x
         /\ get_f64(data, 9).val = m.stance_y_0
         /\ get_f64(data, 17).val = m.stance_y_1
         /\ get_f64(data, 25).val = m.z
         /\ get_f32(data, 33).val = m.yaw
         /\ get_f32(data, 37).val = m.pitch
         /\ get_u8(data, 41).val = m.on_ground
    [] m.kind = "LoginRequest" ->
         LET q == AfterDimension(m) IN
         /\ get_i32(data, 1).val = m.id
         /\ get_i32(data, q - 8).val = m.server_mode
         /\ get_i32(data, q - 4).val = m.dimension
         /\ get_i8(data, q).val = m.difficulty
         /\ get_u8(data, q + 1).val = m.unused_0
         /\ get_u8(data, q + 2).val = m.max_players
    [] OTHER -> TRUE

\* The kinds made of numeric fields only.
NumericKinds ==
  {"KeepAlive", "TimeUpdate", "EntityEquipment", "SpawnPosition",
   "PlayerPositionAndLook"}

\* C12: every numeric field is written most significant byte first in
\* two's complement at its width (a 16-bit -1 is FF FF), and reading the
\* written bytes returns the value: by the read of the field's width at
\* the field's offset for every kind, and by the decode of the whole
\* message for the kinds made of numeric fields only.
C12_BigEndian ==
  /\ (step = "buffer" /\ origin = "encoded")
       => (WrittenBigEndian(packet) /\ ReadBigEndian(packet))
  /\ (step = "decoded" /\ origin = "encoded"
        /\ packet.kind \in NumericKinds)
       => (result.st = "ok" /\ result.val = packet)
  /\ (step = "decoded" /\ origin = "encoded" /\ result.st = "ok"
        /\ packet.kind = "LoginRequest")
       => result.val.id = packet.id

C12_Witness ==
  /\ step = "decoded"
  /\ origin = "encoded"
  /\ packet.kind = "EntityEquipment"
  /\ packet.item_id = -1
  /\ packet.entity_id = -1
  /\ data = <<5, 255, 255, 255, 255>> \o BE(packet.slot, 2)
              \o <<255, 255>> \o BE(packet.damage, 2)
  /\ result.st = "ok"
  /\ result.val.item_id = -1

\* C13: Packet::to_bytes returns Ok for every packet, and the buffer it
\* returns is not empty and starts with the identifier of the variant.
C13_EncodeAlwaysOk ==
  (step \in {"buffer", "failed"} /\ origin \in {"encoded", "none"}
     /\ encoded.st # "none")
    => /\ step = "buffer"
       /\ encoded.st = "ok"
       /\ encoded.val # <<>>
       /\ encoded.val[1] = RegisteredTable[packet.kind]

C13_Witness ==
  /\ step = "buffer"
  /\ origin = "encoded"
  /\ packet.kind = "ServerListPing"
  /\ encoded.st = "ok"
  /\ encoded.val = <<254>>

\* C19: for every string put_string accepts, 65535 units and more
\* included, the prefix read back as an unsigned 16-bit integer is the
\* number of 16-bit units written after it.
C19_NoWrappedPrefix ==
  (step = "long_string" /\ long.st = "ok") => long.prefix = long.units

\* The last decode of connection c failed: an error value or a panic.
DecodeFailed(c) ==
  /\ conn[c].decodes # <<>>
  /\ conn[c].decodes[Len(conn[c].decodes)].st # "ok"

\* A step of the task of c in which its decode fails.
DecodeFails(c) ==
  /\ Len(conn'[c].decodes) = Len(conn[c].decodes) + 1
  /\ conn'[c].decodes[Len(conn'[c].decodes)].st # "ok"

\* The accept loop is waiting and a further connection can be accepted.
CanAccept ==
  ENABLED (\E c \in Conns, msgs \in ServerScripts, closes \in BOOLEAN :
             Accept(c, msgs, closes))

\* C14: a decode that fails, by an error value or by a panic, on whatever
\* bytes the client sent, ends the task of that connection alone: the
\* process keeps running, no other connection's task changes, and the
\* accept loop can still accept the connections to come.
C14_FailureIsContained ==
  /\ [][\A c \in Conns :
          DecodeFails(c)
            => /\ conn'[c].pc \in {"done", "panicked"}
               /\ server' = "running"
               /\ \A d \in Conns \ {c} : conn'[d] = conn[d]]_vars
  /\ []((server = "running" /\ \E c \in Conns : conn[c].pc = "unaccepted")
          => CanAccept)
  /\ [][server' = "crashed" => conn' = conn]_vars

C14_Witness ==
  /\ server = "running"
  /\ DecodeFailed(1)
  /\ conn[1].pc = "panicked"
  /\ conn[2].pc = "read"
  /\ conn[2].ended = 1
  /\ conn[2].msgs = <<PingMessage>>
  /\ conn[2].sent = <<StatusReply>>

\* The offset in the stream of connection c at which its message j + 1
\* starts, which is where message j ends.
Boundary(c, j) == Len(Flatten(SubSeq(conn[c].msgs, 1, j)))

\* The decode of entry e was given all of one message from its first
\* byte, and no part of a message after it.
WholeMessage(c, e) ==
  \E j \in 1..Len(conn[c].msgs) :
    /\ e.start = Boundary(c, j - 1)
    /\ e.start + e.n >= Boundary(c, j)
    /\ \A l \in 1..Len(conn[c].msgs) :
         ~(e.start < Boundary(c, l - 1) /\ Boundary(c, l - 1) < e.start + e.n)

\* C15: however the transport splits or joins the client's bytes, every
\* decode call of the task is given at least one whole message starting at
\* a message boundary, and no message shares a read with another and is
\* skipped.
C15_DecodeAtMessageBoundary ==
  \A i \in 1..Len(conn[1].decodes) : WholeMessage(1, conn[1].decodes[i])

\* The buffer of connection c with every byte at index >= n replaced by x.
Refilled(c, x) ==
  SubSeq(conn[c].buf, 1, conn[c].n) \o [i \in 1..(BUF_SIZE - conn[c].n) |-> x]

\* What the decode of the last read returns: failure, or a packet.
Decoded(r) == [st |-> r.st, val |-> r.val]

\* C16: the decode that follows a read of n bytes depends on those n bytes
\* only: with any other bytes at index >= n of the buffer it returns the
\* same packet with the same fields, or fails alike.
C16_OnlyReceivedBytes ==
  (conn[1].pc \in {"read", "write", "done", "panicked"} /\ conn[1].n > 0)
    => \A x \in {0, 255} :
         Decoded(Packet_try_from(Refilled(1, x)))
           = Decoded(Packet_try_from(conn[1].buf))

RECURSIVE Kinds(_)
Kinds(ps) == IF ps = <<>> THEN <<>> ELSE <<Head(ps).kind>> \o Kinds(Tail(ps))

\* The kinds of the replies a connection is owed for its decodes, in
\* order: three for a LoginRequest, and those of the other arms.
RECURSIVE Owed(_)
Owed(es) ==
  IF es = <<>> THEN <<>>
  ELSE (IF Head(es).st # "ok" THEN <<>>
        ELSE CASE Head(es).val.kind = "LoginRequest" ->
                    <<"LoginRequest", "SpawnPosition", "PlayerPositionAndLook">>
               [] Head(es).val.kind = "ServerListPing" -> <<"DisconnectKick">>
               [] Head(es).val.kind = "Handshake" -> <<"Handshake">>
               [] Head(es).val.kind = "PlayerPositionAndLook" -> <<"KeepAlive">>
               [] OTHER -> <<>>)
       \o Owed(Tail(es))

IsPrefix(a, b) == Len(a) <= Len(b) /\ a = SubSeq(b, 1, Len(a))

\* No write of the task of connection c has failed.
WritesSucceeded(c) == conn[c].pc # "panicked" \/ conn[c].towrite = <<>>

\* The original statement of C17: whenever the task is not in the middle
\* of an arm, every LoginRequest it decoded has its three replies on the
\* wire, in order, and nothing else was written.
C17_ThreeRepliesAlways ==
  conn[1].pc \in {"read", "done", "panicked"}
    => Kinds(conn[1].sent) = Owed(conn[1].decodes)

\* C17 (amended): the replies written are at every moment the first of
\* those owed for the decodes so far, so a LoginRequest decoded is answered
\* by a LoginRequest reply, a SpawnPosition and a PlayerPositionAndLook, in
\* this order with nothing between them, and neither of the last two is
\* written where no LoginRequest was decoded; all three are written once
\* the arm is over, unless a write failed, which ends the task with only
\* the replies before it written.
C17_RepliesInOrder ==
  /\ IsPrefix(Kinds(conn[1].sent), Owed(conn[1].decodes))
  /\ Kinds(conn[1].sent) \o Kinds(conn[1].towrite) = Owed(conn[1].decodes)
  /\ (conn[1].pc \in {"read", "done", "panicked"} /\ WritesSucceeded(1))
       => Kinds(conn[1].sent) = Owed(conn[1].decodes)
  /\ \A i \in 1..Len(conn[1].sent) :
       conn[1].sent[i].kind \in {"SpawnPosition", "PlayerPositionAndLook"}
         => \E j \in 1..Len(conn[1].decodes) :
              /\ conn[1].decodes[j].st = "ok"
              /\ conn[1].decodes[j].val.kind = "LoginRequest"

C17_Witness ==
  /\ conn[1].pc = "read"
  /\ conn[1].msgs = <<HandshakeMessage, LoginMessage>>
  /\ Len(conn[1].decodes) = 2
  /\ conn[1].decodes[2].st = "ok"
  /\ conn[1].decodes[2].val.kind = "LoginRequest"
  /\ conn[1].sent = <<HandshakeReply, LoginReply, SpawnReply, PositionReply>>

\* C18: a read that returns 0 makes the task return without a decode and
\* without a write; a chunk is answered by at most three writes before
\* the next read; and, every read and write completing, the task of a
\* connection whose peer closes the stream ends.
C18_TaskTerminates ==
  /\ [][ReadEof(1)
          => /\ conn'[1].pc = "done"
             /\ conn'[1].decodes = conn[1].decodes
             /\ conn'[1].sent = conn[1].sent
             /\ conn'[1].towrite = <<>>]_vars
  /\ [](/\ Len(conn[1].towrite) <= 3
        /\ Len(conn[1].sent) + Len(conn[1].towrite)
             <= 3 * Len(conn[1].decodes))
  /\ (conn[1].pc # "unaccepted" /\ conn[1].closes)
       ~> (conn[1].pc \in {"done", "panicked"})

C18_Witness ==
  /\ conn[1].pc = "done"
  /\ conn[1].closes
  /\ conn[1].n = 0
  /\ conn[1].reads = 2
  /\ conn[1].msgs = <<HandshakeMessage, LoginMessage>>
  /\ conn[1].sent = <<HandshakeReply, LoginReply, SpawnReply, PositionReply>>

====
